---- MODULE Spec2Model ----
(***************************************************************************)
(* A model of scripts/graph.py: the FUDG graph (FUDGNode, CBBNode,         *)
(* Fragment, FUDGGraph) and its passes (upward, downward, isProjective).   *)
(*                                                                         *)
(* Python objects are named by strings.  A node is named by its GFL name   *)
(* without the W(..) wrapper; a Fragment object is named by the first node *)
(* (in NodeSeq order) that refers to it, so that two heaps that differ     *)
(* only in the addresses of their Fragment objects are the same state.     *)
(* The set-valued fields that become_pointer makes an alias share with its *)
(* canonical bundle (children, parents, childedges, parentedges, members,  *)
(* externalchildren) are kept per node and every in-place update of such a *)
(* set is applied to all nodes that share the set object.                  *)
(***************************************************************************)
EXTENDS Integers, Sequences, FiniteSets, TLC

\* ------------------------------------------------------------------ universe

None == "None"
Root == "$$"
LexNodes == {"a", "b", "c"}
CBBNodes == {"CBB1", "CBB2", "CBB3"}
CoordNodes == {"$x"}
AllNodes == {Root} \cup LexNodes \cup CoordNodes \cup CBBNodes

\* sorted(..., key=name) order of the node names, also used to name Fragments
NodeSeq == <<"$$", "$x", "CBB1", "CBB2", "CBB3", "a", "b", "c">>
Idx(n) == CHOOSE i \in 1..Len(NodeSeq) : NodeSeq[i] = n

\* graphJ['tokens'] and graphJ['node2words']: one token per lexical node
alltokens == <<"a", "b", "c">>
tokens(n) == IF n \in LexNodes THEN {n} ELSE {}

\* the number of edges of graphJ['node_edges'] the builder is fed
MaxEdges == 5

isRoot(n) == n = Root
isLexical(n) == n \in LexNodes
isCBB(n) == n \in CBBNodes
isCoord(n) == n \in CoordNodes
isFirm(n) == isRoot(n) \/ isLexical(n) \/ isCoord(n)
NameOf(n) == n

\* Python's recursion limit, scaled to the model: a recursion over child
\* links deeper than the number of nodes has met a cycle and never returns
RecursionLimit == Cardinality(AllNodes) + 1

\* parentcandidates / topcandidates that are still None
Unset == {None}

VARIABLES nodes, children, parents, childedges, parentedges, height, depth,
          frag, fragroots, fragnodes, members, externalchildren, top,
          pointerto, topcandidates, parentcandidates, coords, conjuncts,
          phase, err, projective, last, builder

vars == <<nodes, children, parents, childedges, parentedges, height, depth,
          frag, fragroots, fragnodes, members, externalchildren, top,
          pointerto, topcandidates, parentcandidates, coords, conjuncts,
          phase, err, projective, last, builder>>

\* The heap as one record, so that the methods are operators on it
Heap == [nodes |-> nodes, children |-> children, parents |-> parents,
         childedges |-> childedges, parentedges |-> parentedges,
         height |-> height, depth |-> depth, frag |-> frag,
         fragroots |-> fragroots, fragnodes |-> fragnodes,
         members |-> members, externalchildren |-> externalchildren,
         top |-> top, pointerto |-> pointerto,
         topcandidates |-> topcandidates,
         parentcandidates |-> parentcandidates,
         coords |-> coords, conjuncts |-> conjuncts, err |-> ""]

\* ------------------------------------------------------- aliasing (CBBNode)

\* CBBNode._pointerto: the object an attribute of n is forwarded to
Canon(G, n) == IF isCBB(n) /\ G.pointerto[n] # None THEN G.pointerto[n] ELSE n

\* s.add(x) on the set object held in field f of n: seen through every node
\* that holds the same set object
SetAdd(f, G, n, x) ==
    [m \in DOMAIN f |-> IF Canon(G, m) = Canon(G, n) THEN f[m] \cup {x} ELSE f[m]]

\* CBBNode.__getattr__ / __setattr__ for height and depth
getHeight(G, n) == G.height[Canon(G, n)]
setHeight(G, n, h) == [G EXCEPT !.height[Canon(G, n)] = h]
getDepth(G, n) == G.depth[Canon(G, n)]
setDepth(G, n, d) == [G EXCEPT !.depth[Canon(G, n)] = d]

\* CBBNode.__getattr__ / __setattr__ for topcandidates and parentcandidates
\* (LexicalNode and RootNode hold parentcandidates themselves)
getTC(G, n) == G.topcandidates[Canon(G, n)]
setTC(G, n, v) == [G EXCEPT !.topcandidates[Canon(G, n)] = v]
getPC(G, n) == G.parentcandidates[Canon(G, n)]
setPC(G, n, v) == [G EXCEPT !.parentcandidates[Canon(G, n)] = v]

Fail(G, e) == [G EXCEPT !.err = e]

\* ------------------------------------------------------------- reachable()

\* reachable(n1, n2) walks the child links with no visited set; the order in
\* which a set of children is walked is not fixed, so the result is the set
\* of outcomes some order produces: "True", "None" (falls off the loop), or
\* "RecursionError" when the walk can go round a cycle for ever.
RECURSIVE reachable(_, _, _, _)
reachable(G, n1, n2, fuel) ==
    IF n1 = n2 THEN {"True"}
    ELSE IF fuel = 0 THEN {"RecursionError"}
    ELSE LET sub == {reachable(G, c, n2, fuel - 1) : c \in G.children[n1]}
         IN  (IF \E s \in sub : "True" \in s THEN {"True"} ELSE {})
             \cup (IF \E s \in sub : "RecursionError" \in s
                   THEN {"RecursionError"} ELSE {})
             \cup (IF \A s \in sub : "None" \in s THEN {"None"} ELSE {})

\* ------------------------------------------------ _setMinHeight/_setMinDepth

RECURSIVE setMinHeight(_, _, _)
RECURSIVE setMinHeightAll(_, _, _)
setMinHeight(G, n, h) ==
    IF getHeight(G, n) < h
    THEN LET G1 == setHeight(G, n, h)
         IN  setMinHeightAll(G1, G1.parents[n], h + 1)
    ELSE G
setMinHeightAll(G, ps, h) ==
    IF ps = {} THEN G
    ELSE LET p == CHOOSE x \in ps : TRUE
         IN  setMinHeightAll(setMinHeight(G, p, h), ps \ {p}, h)

\* A depth beyond RecursionLimit is only asked for on a cycle of child links,
\* where the recursion never ends: RecursionError
RECURSIVE setMinDepth(_, _, _)
RECURSIVE setMinDepthAll(_, _, _)
setMinDepth(G, n, d) ==
    IF G.err # "" THEN G
    ELSE IF d > RecursionLimit THEN Fail(G, "RecursionError")
    ELSE IF getDepth(G, n) < d
    THEN LET G1 == setDepth(G, n, d)
         IN  setMinDepthAll(G1, G1.children[n], d + 1)
    ELSE G
setMinDepthAll(G, cs, d) ==
    IF cs = {} THEN G
    ELSE LET c == CHOOSE x \in cs : TRUE
         IN  setMinDepthAll(setMinDepth(G, c, d), cs \ {c}, d)

\* ----------------------------------------------------------------- Fragment

\* The name of a Fragment object: its first referrer
FragName(G, f) ==
    LET refs == {n \in AllNodes : G.frag[n] = f}
    IN  CHOOSE n \in refs : \A m \in refs : Idx(n) <= Idx(m)

\* Rename the Fragment objects after their referrers and drop the ones that
\* no node refers to any more (garbage)
Collect(G) ==
    LET live == {G.frag[n] : n \in AllNodes}
        old(k) == CHOOSE f \in live : FragName(G, f) = k
        named == {FragName(G, f) : f \in live}
    IN  [G EXCEPT !.frag = [n \in AllNodes |-> FragName(G, G.frag[n])],
                  !.fragroots = [k \in AllNodes |->
                        IF k \in named THEN G.fragroots[old(k)] ELSE {}],
                  !.fragnodes = [k \in AllNodes |->
                        IF k \in named THEN G.fragnodes[old(k)] ELSE {}]]

\* Fragment.__or__ with line 241 left out: the roots of the other fragment
\* are lost (used to test that C3 depends on the merge of the root sets)
FragOrRootsLost(G, self, node) ==
    LET s == G.frag[self]
        t == G.frag[node]
    IN  IF s = t THEN G
        ELSE [G EXCEPT !.fragnodes[s] = @ \cup G.fragnodes[t],
                       !.frag = [n \in AllNodes |->
                            IF n \in G.fragnodes[t] THEN s ELSE G.frag[n]]]

\* Fragment.__or__ as used by `self.frag |= node.frag`
FragOr(G, self, node) ==
    LET s == G.frag[self]
        t == G.frag[node]
    IN  IF s = t THEN G
        ELSE [G EXCEPT !.fragroots[s] = @ \cup G.fragroots[t],
                       !.fragnodes[s] = @ \cup G.fragnodes[t],
                       !.frag = [n \in AllNodes |->
                            IF n \in G.fragnodes[t] THEN s ELSE G.frag[n]]]

\* add_child, lines 91-95: recompute depths in the entire fragment
RECURSIVE resetDepths(_, _)
resetDepths(G, ns) ==
    IF ns = {} THEN G
    ELSE LET n == CHOOSE x \in ns : TRUE
         IN  resetDepths(setDepth(G, n, -1), ns \ {n})
RECURSIVE rootDepths(_, _)
rootDepths(G, rs) ==
    IF rs = {} THEN G
    ELSE LET r == CHOOSE x \in rs : TRUE
         IN  rootDepths(setMinDepth(G, r, 0), rs \ {r})
recomputeDepths(G, f) ==
    rootDepths(resetDepths(G, G.fragnodes[f]), G.fragroots[f])

\* ------------------------------------------------------- FUDGNode.add_child

\* add_child with line 89 left out: the child stays a root of the merged
\* fragment (used to test that C12 depends on the removal)
dropRootKept(G, f, node) == G

\* add_child, line 89: self.frag.roots -= {node}
dropRoot(G, f, node) == [G EXCEPT !.fragroots[f] = @ \ {node}]

\* add_child from the cycle check on (lines 82-95), the check having passed
addChildFinish(G, self, node, label) ==
    LET G1 == [G EXCEPT !.parentedges = SetAdd(@, G, node, <<self, label>>),
                        !.parents = SetAdd(@, G, node, self)]
        G2 == setMinHeight(G1, self, getHeight(G1, node) + 1)
        G3 == FragOr(G2, self, node)
        f  == G3.frag[self]
        G4 == dropRoot(G3, f, node)
    IN  Collect(recomputeDepths(G4, f))

\* FUDGNode.add_child(self, node, label): the heaps the call can leave
addChild(G, self, node, label) ==
    IF NameOf(self) = NameOf(node) THEN {Fail(G, "AssertionError")}
    ELSE IF isRoot(node) /\ ~(isCBB(self) /\ label # None)
    THEN {Fail(G, "AssertionError")}
    ELSE LET G1 == [G EXCEPT !.children = SetAdd(@, G, self, node),
                             !.childedges = SetAdd(@, G, self, <<node, label>>)]
             r == reachable(G1, node, self, RecursionLimit)
         IN  (IF "True" \in r THEN {Fail(G1, "CycleError")} ELSE {})
             \cup (IF "RecursionError" \in r
                   THEN {Fail(G1, "RecursionError")} ELSE {})
             \cup (IF "None" \in r
                   THEN {addChildFinish(G1, self, node, label)} ELSE {})

\* CBBNode.add_member(self, node, specified_top)
add_member(G, self, node, specified_top) ==
    LET G1 == [G EXCEPT !.members = SetAdd(@, G, self, node)]
    IN  IF specified_top
        THEN IF G1.top[self] # None THEN {Fail(G1, "AssertionError")}
             ELSE addChild([G1 EXCEPT !.top[self] = node], self, node, "top")
        ELSE addChild(G1, self, node, "unspec")

\* CBBNode.add_child(self, node) and, for the other nodes, FUDGNode.add_child
add_child(G, self, node) ==
    IF isCBB(self)
    THEN addChild([G EXCEPT !.externalchildren = SetAdd(@, G, self, node)],
                  self, node, None)
    ELSE addChild(G, self, node, None)

\* ------------------------------------------------------ FUDGGraph.__init__

\* self.cbbnodes
cbbnodesOf(G) == {n \in G.nodes : isCBB(n)}

\* sorted(self.cbbnodes, key=lambda n: n.name)
cbbs == <<"CBB1", "CBB2", "CBB3">>

\* become_pointer, lines 201-202: node.add_child(c) for every external child
\* of the alias, in any order, stopping at the first call that raises
RECURSIVE absorb(_, _, _)
absorb(G, node, todo) ==
    IF G.err # "" \/ todo = {} THEN {G}
    ELSE UNION {UNION {absorb(G1, node, todo \ {c}) : G1 \in add_child(G, node, c)}
                : c \in todo}

Max(x, y) == IF x >= y THEN x ELSE y

\* become_pointer, lines 203-209: the alias takes the canonical bundle's sets
share(G, self, node) ==
    [G EXCEPT !.externalchildren[self] = G.externalchildren[node],
              !.members[self] = G.members[node],
              !.children[self] = G.children[node],
              !.parents[self] = G.parents[node],
              !.childedges[self] = G.childedges[node],
              !.parentedges[self] = G.parentedges[node],
              !.pointerto[self] = node]

\* CBBNode.become_pointer(self, node): the heaps the call can leave
become_pointer(G, self, node) ==
    IF ~isCBB(node) \/ G.members[node] # G.members[self]
    THEN {Fail(G, "AssertionError")}
    ELSE IF ~(G.top[node] = None \/ G.top[self] = None
              \/ G.top[node] = G.top[self])
    THEN {Fail(G, "AssertionError")}
    ELSE LET G1 == IF G.top[node] = None
                   THEN [G EXCEPT !.top[node] = G.top[self]]
                   ELSE [G EXCEPT !.top[self] = G.top[node]]
             G2 == setHeight(G1, node, Max(getHeight(G1, self), getHeight(G1, node)))
             G3 == setDepth(G2, node, Max(getDepth(G2, self), getDepth(G2, node)))
         IN  {IF G4.err # "" THEN G4 ELSE share(G4, self, node)
              : G4 \in absorb(G3, node, G3.externalchildren[self])}

\* lines 360-370: merge CBBs with identical member sets, from cbbs[i] on
RECURSIVE unify(_, _)
unify(G, i) ==
    IF G.err # "" \/ i > Len(cbbs) THEN {G}
    ELSE LET hs == {h \in 1..(i - 1) :
                      /\ G.pointerto[cbbs[h]] = None
                      /\ G.members[cbbs[h]] = G.members[cbbs[i]]}
         IN  IF hs = {} THEN unify(G, i + 1)
             ELSE LET h == CHOOSE x \in hs : \A y \in hs : x <= y
                  IN  UNION {unify(IF G1.err # "" THEN G1
                                   ELSE [G1 EXCEPT !.nodes = @ \ {cbbs[i]}],
                                   i + 1)
                             : G1 \in become_pointer(G, cbbs[i], cbbs[h])}

\* ------------------------------------------------------------------ upward

\* lines 500-513: the loop over n.childedges, in any order; "top" breaks
RECURSIVE upwardEdges(_, _, _)
upwardEdges(G, n, todo) ==
    IF todo = {} THEN {G}
    ELSE UNION {
        LET c == e[1]
            lbl == e[2]
        IN  IF lbl = "top"
            THEN IF isCBB(c)
                 THEN IF getTC(G, c) = Unset THEN {Fail(G, "TypeError")}
                      ELSE {setTC(G, n, getTC(G, c))}
                 ELSE {setTC(G, n, {c})}
            ELSE IF lbl = "unspec"
            THEN IF isCBB(c) /\ getTC(G, c) = Unset THEN {Fail(G, "TypeError")}
                 ELSE upwardEdges(
                        setTC(G, n, getTC(G, n)
                                    \cup (IF isCBB(c) THEN getTC(G, c) ELSE {c})),
                        n, todo \ {e})
            ELSE upwardEdges(G, n, todo \ {e})
        : e \in todo}

\* lines 494-515: one CBB of the loop
upwardNode(G, n) ==
    LET G1 == setTC(G, n, {})
    IN  IF Cardinality({e \in G1.childedges[n] : e[2] = "top"}) > 1
        THEN {Fail(G1, "AssertionError")}
        ELSE {IF G2.err # "" THEN G2
              ELSE IF n \in getTC(G2, n) \/ \E x \in getTC(G2, n) : isCBB(x)
              THEN Fail(G2, "AssertionError")
              ELSE G2
              : G2 \in upwardEdges(G1, n, G1.childedges[n])}

\* sorted(F.nodes, key=height): nodes of equal height come in any order; the
\* loop body acts on CBBs only, so only their order is drawn
RECURSIVE upwardFrom(_, _)
upwardFrom(G, todo) ==
    IF G.err # "" \/ todo = {} THEN {G}
    ELSE UNION {UNION {upwardFrom(G1, todo \ {n}) : G1 \in upwardNode(G, n)}
                : n \in {m \in todo :
                           \A k \in todo : getHeight(G, m) <= getHeight(G, k)}}

upward(G) == upwardFrom(G, cbbnodesOf(G))

\* ---------------------------------------------------------------- downward

\* Graph.firmNodes
firmNodes(G) == {n \in G.nodes : isFirm(n)}

\* FUDGNode.descendants: set() of what itertools.groupby yields over the
\* children chained with one descendantsIter (a groupby object) per child:
\* (key, group) tuples, the key a child or a groupby object.  Python values
\* are tagged here, a node n being <<"node", n>>.
descendants(G, n) ==
    {<<"tuple(node,grouper)", c>> : c \in G.children[n]}
    \cup {<<"tuple(groupby,grouper)", c>> : c \in G.children[n]}

\* set difference of a set of nodes and a set of Python values
pyMinus(S, D) == {x \in S : <<"node", x>> \notin D}

\* lines 533-551: one parent edge (p, e) of n
downwardEdge(G, n, p) ==
    IF isCBB(p)
    THEN IF n \in G.members[p]
         THEN IF getTC(G, p) = Unset \/ (isCBB(n) /\ getTC(G, n) = Unset)
              THEN Fail(G, "TypeError")
              ELSE LET tcands == IF isCBB(n) THEN getTC(G, n) ELSE {n}
                       mightBeTop == getTC(G, p) \cap tcands # {}
                       siblings == IF getTC(G, p) # tcands
                                   THEN G.members[p] \ {n} ELSE {}
                   IN  IF mightBeTop /\ getPC(G, p) = Unset
                       THEN Fail(G, "AssertionError: parentcandidates is None")
                       ELSE IF \E sib \in siblings :
                                  isCBB(sib) /\ getTC(G, sib) = Unset
                       THEN Fail(G, "TypeError")
                       ELSE LET cands ==
                                  (IF mightBeTop THEN getPC(G, p) ELSE {})
                                  \cup UNION {IF isCBB(sib) THEN getTC(G, sib)
                                              ELSE {sib} : sib \in siblings}
                            IN  setPC(G, n, getPC(G, n) \cap cands)
         ELSE IF n \notin G.externalchildren[p]
         THEN Fail(G, "AssertionError")
         ELSE IF getTC(G, p) = Unset THEN Fail(G, "TypeError")
         ELSE setPC(G, n, getPC(G, n) \cap getTC(G, p))
    ELSE IF ~isFirm(p) THEN Fail(G, "AssertionError")
    ELSE setPC(G, n, getPC(G, n) \cap {p})

\* lines 532-552: the loop over n.parentedges, in any order
RECURSIVE downwardEdges(_, _, _)
downwardEdges(G, n, todo) ==
    IF G.err # "" \/ todo = {} THEN {G}
    ELSE UNION {downwardEdges(downwardEdge(G, n, e[1]), n, todo \ {e})
                : e \in todo}

\* lines 526-555: one node of the loop
downwardNode(G, n) ==
    IF isRoot(n) THEN {G}
    ELSE LET G1 == setPC(G, n, pyMinus(firmNodes(G) \ {n}, descendants(G, n)))
         IN  IF getPC(G1, n) = {} THEN {Fail(G1, "AssertionError")}
             ELSE {IF G2.err = "" /\ getPC(G2, n) = {}
                   THEN Fail(G2, "AssertionError: Could not find any possible heads")
                   ELSE G2
                   : G2 \in downwardEdges(G1, n, G1.parentedges[n])}

\* The CBBs whose parentcandidates the loop body reads for n
readsPC(G, n) == {Canon(G, e[1]) : e \in {x \in G.parentedges[n] :
                                            isCBB(x[1]) /\ n \in G.members[x[1]]}}

\* sorted(G.nodes, key=depth): nodes of equal depth come in any order.  The
\* body of n writes n.parentcandidates alone and reads those of the CBBs in
\* readsPC(n), so the place among its equals of a node that is no CBB and
\* reads none of them changes nothing: such a node is taken first, and every
\* order of the others is drawn.
RECURSIVE downwardFrom(_, _)
downwardFrom(G, todo) ==
    IF G.err # "" \/ todo = {} THEN {G}
    ELSE LET next == {m \in todo : \A k \in todo : getDepth(G, m) <= getDepth(G, k)}
             free == {m \in next : ~isCBB(m) /\ readsPC(G, m) \cap next = {}}
             pick == IF free # {} THEN {CHOOSE m \in free : TRUE} ELSE next
         IN  UNION {UNION {downwardFrom(G1, todo \ {n}) : G1 \in downwardNode(G, n)}
                    : n \in pick}

downward(G) == downwardFrom(G, G.nodes)

\* ------------------------------------------------------------ isProjective

\* self.token2lexnode
token2lexnode(t) == CHOOSE n \in LexNodes : t \in tokens(n)
hasLexnode(t) == \E n \in LexNodes : t \in tokens(n)

\* FUDGNode.get_yield / LexicalNode.get_yield: the tokens, or
\* {"RecursionError"} when the child links under n hold a cycle
RECURSIVE get_yield(_, _, _)
get_yield(G, n, fuel) ==
    IF fuel = 0 THEN {"RecursionError"}
    ELSE LET sub == UNION {get_yield(G, c, fuel - 1) : c \in G.children[n]}
         IN  IF "RecursionError" \in sub THEN {"RecursionError"}
             ELSE tokens(n) \cup sub

\* usedtokens without the test on the size of the fragment (used to test
\* that C8 depends on the restriction to multi-node fragments)
usedtokensUnfiltered(G) == SelectSeq(alltokens, LAMBDA t : hasLexnode(t))

\* line 377
usedtokens(G) ==
    SelectSeq(alltokens,
              LAMBDA t : hasLexnode(t)
                         /\ Cardinality(G.fragnodes[G.frag[token2lexnode(t)]]) > 1)

\* list.index
index(seq, x) == CHOOSE i \in 1..Len(seq) : seq[i] = x /\ \A j \in 1..(i - 1) : seq[j] # x

SetMax(S) == CHOOSE x \in S : \A y \in S : y <= x
SetMin(S) == CHOOSE x \in S : \A y \in S : x <= y

\* lines 380-385: what the loop body does for n
projectiveNode(G, n) ==
    IF isRoot(n) \/ Cardinality(G.fragnodes[G.frag[n]]) < 2 THEN "continue"
    ELSE LET yieldtkns == get_yield(G, n, RecursionLimit)
             used == usedtokens(G)
         IN  IF yieldtkns = {"RecursionError"} THEN "RecursionError"
             ELSE IF \E t \in yieldtkns : \A i \in 1..Len(used) : used[i] # t
             THEN "ValueError"
             ELSE IF yieldtkns = {} THEN "ValueError"
             ELSE LET yieldoffsets == {index(used, t) : t \in yieldtkns}
                  IN  IF SetMax(yieldoffsets) - SetMin(yieldoffsets)
                         # Cardinality(yieldoffsets) - 1
                      THEN "False" ELSE "continue"

\* FUDGGraph.isProjective: self.nodes is walked in any order, up to the first
\* node that returns False or raises
isProjective(G) ==
    LET stops == {projectiveNode(G, n) : n \in G.nodes} \ {"continue"}
    IN  IF stops = {} THEN {"True"} ELSE stops

\* ------------------------------------------------------------------ actions

\* graphJ['node_edges']: the (parent, child, label) triples the builder may
\* be fed.  "unspec" and "cbbhead" edges have a CBB as their parent.
MemberInputs ==
    ({"CBB1", "CBB2"} \X {"a", "b"} \X {"unspec"})
    \cup {<<"CBB1", "a", "top">>, <<"CBB2", "a", "top">>,
          <<"CBB3", "a", "unspec">>, <<"CBB3", "a", "top">>,
          <<"CBB3", "CBB1", "unspec">>,
          <<"CBB1", Root, "unspec">>, <<"CBB1", Root, "top">>}
PlainInputs ==
    {<<"CBB1", "c", None>>, <<"CBB2", "c", None>>, <<"c", "CBB2", None>>,
     <<"b", "CBB2", None>>,
     <<"c", "a", None>>, <<"a", "b", None>>, <<"b", "a", None>>,
     <<"b", "c", None>>, <<Root, "a", None>>, <<Root, "c", None>>,
     <<Root, "CBB1", None>>, <<"a", Root, None>>}
EdgeInputs == MemberInputs \cup PlainInputs

\* ------------------------------------------- FUDGGraph.__init__: the nodes

\* GFL names and tokens are strings the builder slices: sequences of characters
tkn_a == <<"a">>
tkn_b == <<"b">>
tkn_c == <<"c">>
tkn_a_b == <<"a", "_", "b">>
W(t) == <<"W", "(">> \o t \o <<")">>
MW(t) == <<"M", "W", "(">> \o t \o <<")">>
CBB(i) == <<"C", "B", "B", i>>
Coordination(x) == <<"$", x>>

\* str.startswith and the slice lex[i:-1]
startswith(lex, prefix) ==
    Len(lex) >= Len(prefix) /\ SubSeq(lex, 1, Len(prefix)) = prefix
slice(lex, i) == SubSeq(lex, i + 1, Len(lex) - 1)

\* graphJ['nodes'] is a list of these names
GFLNames == {W(tkn_a), W(tkn_b), W(tkn_a_b), MW(tkn_a_b), W(<<"$", "$">>),
             W(<<",">>), Coordination("x"), Coordination("y"), CBB("1")}

\* graphJ['node2words'] and graphJ['extra_node2words'] (all labelled 'Coord')
node2words(lex) ==
    CASE lex = W(tkn_a) -> {tkn_a}
      [] lex = W(tkn_b) -> {tkn_b}
      [] lex = W(tkn_c) -> {tkn_c}
      [] lex = W(tkn_a_b) -> {tkn_a_b}
      [] lex = MW(tkn_a_b) -> {tkn_a, tkn_b}
extra_node2words(lex) ==
    CASE lex = Coordination("x") -> {tkn_a_b}
      [] lex = Coordination("y") -> {tkn_b}

\* FUDGGraph.__init__, lines 263-275
NewBuilder ==
    [token2lexnode |-> {}, lexnodes |-> {}, cbbnodes |-> {}, coordnodes |-> {},
     coordNodes |-> {}, nodesbyname |-> {W(<<"$", "$">>)}, err |-> ""]

\* LexicalNode.__init__ followed by self.lexnodes.add(n): token2lexnode is
\* held as the set of its (token, node) pairs
LexicalNode(B, lname, tkns) ==
    IF lname = <<"$", "$">> THEN [B EXCEPT !.err = "AssertionError"]
    ELSE IF \E p \in B.token2lexnode : p[1] \in tkns
         THEN [B EXCEPT !.err = "AssertionError"]
         ELSE LET n == [name |-> lname, tokens |-> tkns]
              IN  [B EXCEPT !.token2lexnode = @ \cup {<<t, n>> : t \in tkns},
                            !.lexnodes = @ \cup {n}]

\* FixedDict.__setitem__ on self.nodesbyname (the keys are what matters here)
setNodeByName(B, lex) ==
    IF B.err # "" THEN B
    ELSE IF lex \in B.nodesbyname THEN [B EXCEPT !.err = "KeyError"]
         ELSE [B EXCEPT !.nodesbyname = @ \cup {lex}]

\* add_lex(lex, tkns), lines 282-289
add_lex(B, lex, tkns) == setNodeByName(LexicalNode(B, slice(lex, 2), tkns), lex)

\* the body of `for lex in graphJ['nodes']`, lines 291-313
declareNode(B, lex) ==
    IF lex = W(<<",">>) THEN [B EXCEPT !.err = "AssertionError"]
    ELSE IF lex = W(<<"$", "$">>) THEN B
    ELSE IF startswith(lex, <<"M", "W", "(">>)
         THEN setNodeByName(LexicalNode(B, slice(lex, 3), node2words(lex)), lex)
    ELSE IF startswith(lex, <<"W", "(">>)
         THEN add_lex(B, lex, node2words(lex))
    ELSE IF lex[1] = "$"
         THEN [B EXCEPT !.coordNodes = @ \cup {lex}]
    ELSE IF ~startswith(lex, <<"C", "B", "B">>)
         THEN [B EXCEPT !.err = "AssertionError"]
         ELSE setNodeByName([B EXCEPT !.cbbnodes = @ \cup {lex}], lex)

\* lines 320-323: a lexical node for a coordinator that has none
RECURSIVE coordinators(_, _)
coordinators(B, tkns) ==
    IF B.err # "" \/ tkns = {} THEN B
    ELSE LET t == CHOOSE x \in tkns : TRUE
             B1 == IF \E p \in B.token2lexnode : p[1] = t THEN B
                   ELSE LexicalNode(B, t, {t})
         IN  coordinators(B1, tkns \ {t})

\* the body of `for lex in coordNodes`, lines 316-327
declareCoord(B, lex) ==
    setNodeByName([coordinators(B, extra_node2words(lex))
                     EXCEPT !.coordnodes = @ \cup {lex}], lex)

\* the builder's state for a list of names with no coordination node
RECURSIVE declareAll(_, _)
declareAll(B, lexes) ==
    IF lexes = <<>> THEN B ELSE declareAll(declareNode(B, Head(lexes)), Tail(lexes))

\* the edges the graph holds (no bundle is an alias while edges are added)
EdgeSet == UNION {{<<p, e[1], e[2]>> : e \in childedges[p]} : p \in AllNodes}

Store(G) ==
    /\ nodes' = G.nodes
    /\ children' = G.children
    /\ parents' = G.parents
    /\ childedges' = G.childedges
    /\ parentedges' = G.parentedges
    /\ height' = G.height
    /\ depth' = G.depth
    /\ frag' = G.frag
    /\ fragroots' = G.fragroots
    /\ fragnodes' = G.fragnodes
    /\ members' = G.members
    /\ externalchildren' = G.externalchildren
    /\ top' = G.top
    /\ pointerto' = G.pointerto
    /\ topcandidates' = G.topcandidates
    /\ parentcandidates' = G.parentcandidates
    /\ coords' = G.coords
    /\ conjuncts' = G.conjuncts
    /\ err' = G.err
    /\ UNCHANGED builder

\* FUDGNode.__init__, CBBNode.__init__, FUDGGraph.__init__ up to line 338,
\* on an input that declares no coordination node
Init ==
    /\ nodes = AllNodes \ CoordNodes
    /\ children = [n \in AllNodes |-> {}]
    /\ parents = [n \in AllNodes |-> {}]
    /\ childedges = [n \in AllNodes |-> {}]
    /\ parentedges = [n \in AllNodes |-> {}]
    /\ height = [n \in AllNodes |-> 0]
    /\ depth = [n \in AllNodes |-> -1]
    /\ frag = [n \in AllNodes |-> n]
    /\ fragroots = [n \in AllNodes |-> {n}]
    /\ fragnodes = [n \in AllNodes |-> {n}]
    /\ members = [n \in CBBNodes |-> {}]
    /\ externalchildren = [n \in CBBNodes |-> {}]
    /\ top = [n \in CBBNodes |-> None]
    /\ pointerto = [n \in CBBNodes |-> None]
    /\ topcandidates = [n \in CBBNodes |-> Unset]
    /\ parentcandidates = [n \in AllNodes |-> Unset]
    /\ coords = [n \in CoordNodes |-> {}]
    /\ conjuncts = [n \in CoordNodes |-> {}]
    /\ phase = "edges"
    /\ err = ""
    /\ projective = None
    /\ last = <<>>
    /\ builder = declareAll(NewBuilder, <<W(tkn_a), W(tkn_b), W(tkn_c),
                                           CBB("1"), CBB("2"), CBB("3")>>)

CanFeed(e) ==
    /\ phase = "edges"
    /\ err = ""
    /\ e \in EdgeSet \/ Cardinality(EdgeSet) < MaxEdges

\* lines 347-350: an "unspec" or "cbbhead" edge
AddMember ==
    \E e \in MemberInputs :
        /\ CanFeed(e)
        /\ \E G \in add_member(Heap, e[1], e[2], e[3] = "top") :
                Store(G) /\ last' = (IF G.err # "" THEN e ELSE <<>>)
        /\ UNCHANGED <<phase, projective>>

\* lines 353-355: an edge with no label
AddChild ==
    \E e \in PlainInputs :
        /\ CanFeed(e)
        /\ \E G \in add_child(Heap, e[1], e[2]) :
                Store(G) /\ last' = (IF G.err # "" THEN e ELSE <<>>)
        /\ UNCHANGED <<phase, projective>>

\* lines 360-370, the end of FUDGGraph.__init__
Unify ==
    /\ phase = "edges"
    /\ err = ""
    /\ \E G \in unify(Heap, 1) : Store(G)
    /\ phase' = "built"
    /\ last' = <<>>
    /\ UNCHANGED projective

\* upward(F), called on a built graph
Upward ==
    /\ phase = "built"
    /\ err = ""
    /\ \E G \in upward(Heap) : Store(G)
    /\ phase' = "up"
    /\ last' = <<>>
    /\ projective' = None

\* downward(G), called after upward
Downward ==
    /\ phase = "up"
    /\ err = ""
    /\ \E G \in downward(Heap) : Store(G)
    /\ phase' = "down"
    /\ last' = <<>>
    /\ projective' = None

\* the isProjective property, read on a built graph
IsProjective ==
    /\ phase \in {"built", "up", "down"}
    /\ err = ""
    /\ projective = None
    /\ projective' \in isProjective(Heap)
    /\ UNCHANGED <<nodes, children, parents, childedges, parentedges, height,
                   depth, frag, fragroots, fragnodes, members, externalchildren,
                   top, pointerto, topcandidates, parentcandidates, coords,
                   conjuncts, phase, err, last, builder>>

Next == AddMember \/ AddChild \/ Unify \/ Upward \/ Downward \/ IsProjective

Spec == Init /\ [][Next]_vars

\* ------------------------------------ the builder on the nodes of an input

\* the fields of the node objects, which no step before the edges touches
fields == <<nodes, children, parents, childedges, parentedges, height, depth,
            frag, fragroots, fragnodes, members, externalchildren, top,
            pointerto, topcandidates, parentcandidates, coords, conjuncts>>

\* FUDGGraph.__init__ at line 290, on an input record with no edges
InitNodes ==
    /\ nodes = AllNodes \ CoordNodes
    /\ children = [n \in AllNodes |-> {}]
    /\ parents = [n \in AllNodes |-> {}]
    /\ childedges = [n \in AllNodes |-> {}]
    /\ parentedges = [n \in AllNodes |-> {}]
    /\ height = [n \in AllNodes |-> 0]
    /\ depth = [n \in AllNodes |-> -1]
    /\ frag = [n \in AllNodes |-> n]
    /\ fragroots = [n \in AllNodes |-> {n}]
    /\ fragnodes = [n \in AllNodes |-> {n}]
    /\ members = [n \in CBBNodes |-> {}]
    /\ externalchildren = [n \in CBBNodes |-> {}]
    /\ top = [n \in CBBNodes |-> None]
    /\ pointerto = [n \in CBBNodes |-> None]
    /\ topcandidates = [n \in CBBNodes |-> Unset]
    /\ parentcandidates = [n \in AllNodes |-> Unset]
    /\ coords = [n \in CoordNodes |-> {}]
    /\ conjuncts = [n \in CoordNodes |-> {}]
    /\ phase = "nodes"
    /\ err = ""
    /\ projective = None
    /\ last = <<>>
    /\ builder = NewBuilder

StoreBuilder(B) ==
    /\ builder' = [B EXCEPT !.err = ""]
    /\ err' = B.err
    /\ UNCHANGED <<fields, projective, last>>

\* lines 291-313: the next name of graphJ['nodes']
DeclareNode ==
    /\ phase = "nodes"
    /\ err = ""
    /\ \E lex \in GFLNames : StoreBuilder(declareNode(builder, lex))
    /\ UNCHANGED phase

\* the end of graphJ['nodes']
EndNodes ==
    /\ phase = "nodes"
    /\ err = ""
    /\ phase' = "coords"
    /\ UNCHANGED <<fields, projective, last, builder, err>>

\* lines 316-327: the next coordination node, in any order
DeclareCoord ==
    /\ phase = "coords"
    /\ err = ""
    /\ \E lex \in builder.coordNodes \ builder.coordnodes :
          StoreBuilder(declareCoord(builder, lex))
    /\ UNCHANGED phase

\* lines 330-372 with no CBBMW and no edge: `assert self.lexnodes` is left
Construct ==
    /\ phase = "coords"
    /\ err = ""
    /\ builder.coordNodes = builder.coordnodes
    /\ phase' = "built"
    /\ err' = (IF builder.lexnodes = {} THEN "AssertionError" ELSE "")
    /\ UNCHANGED <<fields, projective, last, builder>>

NextNodes == DeclareNode \/ EndNodes \/ DeclareCoord \/ Construct

NodesSpec == InitNodes /\ [][NextNodes]_vars

\* ------------------------------------------------------------ simplify_coord

\* lines 425-441: every coordinator and conjunct but the new head becomes a
\* child of the new head, in any order, up to the first call that raises.
\* S.g is the heap, S.seen the heights that went into maxht.
RECURSIVE attachConjuncts(_, _, _)
attachConjuncts(S, newhead, todo) ==
    IF S.g.err # "" \/ todo = {} THEN {S}
    ELSE UNION {UNION {attachConjuncts(
                          [g |-> IF G1.err = "" /\ c \notin G1.nodes
                                 THEN Fail(G1, "AssertionError") ELSE G1,
                           seen |-> S.seen \cup {getHeight(S.g, c)}],
                          newhead, todo \ {c})
                       : G1 \in add_child(S.g, newhead, c)}
                : c \in todo}

\* lines 443-460: every child of the coordination node (a modifier) loses
\* the node as its parent and becomes a child of the new head
RECURSIVE attachModifiers(_, _, _, _)
attachModifiers(S, n, newhead, todo) ==
    IF S.g.err # "" \/ todo = {} THEN {S}
    ELSE UNION {
           IF n \notin S.g.parents[c]
           THEN {[S EXCEPT !.g = Fail(S.g, "KeyError")]}
           ELSE LET G0 == [S.g EXCEPT
                             !.parents[c] = @ \ {n},
                             !.parentedges[c] = {e \in @ : e[1] # n}]
                IN  UNION {attachModifiers(
                              [g |-> IF G1.err = "" /\ c \notin G1.nodes
                                     THEN Fail(G1, "AssertionError") ELSE G1,
                               seen |-> S.seen \cup {getHeight(G0, c)}],
                              n, newhead, todo \ {c})
                           : G1 \in add_child(G0, newhead, c)}
           : c \in todo}

\* lines 464-466: the new head becomes a child of every parent of the node
RECURSIVE attachHead(_, _, _)
attachHead(G, newhead, todo) ==
    IF G.err # "" \/ todo = {} THEN {G}
    ELSE UNION {UNION {attachHead(G1, newhead, todo \ {p})
                       : G1 \in add_child(G, p, newhead)}
                : p \in todo}

\* lines 464-473
reattach(G, n, newhead) ==
    IF G.parents[n] # {} THEN attachHead(G, newhead, G.parents[n])
    ELSE IF n \notin G.fragroots[G.frag[n]] THEN {Fail(G, "AssertionError")}
    ELSE {recomputeDepths(G, G.frag[n])}

\* lines 479-482 (the check of the depths at 474-477 only prints)
removeUtterly(G, n, newhead) ==
    IF G.err # "" THEN G
    ELSE IF newhead \notin G.nodes THEN Fail(G, "AssertionError")
    ELSE IF n \notin G.fragnodes[G.frag[n]] THEN Fail(G, "KeyError")
    ELSE [G EXCEPT !.fragnodes[G.frag[n]] = @ \ {n}]

\* line 412: sorted(n.coords, key=lambda v: v.name)[0]
firstByName(S) == CHOOSE v \in S : \A w \in S : Idx(v) <= Idx(w)

\* the body of the loop (lines 411-482) for the coordination node n
simplifyNode(G, n) ==
    IF G.coords[n] = {} THEN {Fail(G, "StopIteration")}
    ELSE
    LET newhead == firstByName(G.coords[n])
        S1s == attachConjuncts([g |-> G, seen |-> {}], newhead,
                               (G.coords[n] \cup G.conjuncts[n]) \ {newhead})
        S2s == UNION {attachModifiers(S, n, newhead, S.g.children[n]) : S \in S1s}
        \* line 462: maxht is -inf when nothing was attached
        G3s == {IF S.g.err # "" THEN S.g
                ELSE IF S.seen = {} \/ getHeight(S.g, newhead) # SetMax(S.seen) + 1
                THEN Fail(S.g, "AssertionError")
                ELSE S.g : S \in S2s}
        G4s == UNION {IF G3.err # "" THEN {G3} ELSE reattach(G3, n, newhead)
                      : G3 \in G3s}
    IN  {removeUtterly(G4, n, newhead) : G4 \in G4s}

\* the loop of line 410 over the coordination nodes, lowest first as the
\* heights stood when the list was sorted (hs), ties in any order
RECURSIVE simplifyLoop(_, _, _)
simplifyLoop(G, hs, todo) ==
    IF G.err # "" \/ todo = {} THEN {G}
    ELSE UNION {UNION {simplifyLoop(G1, hs, todo \ {n}) : G1 \in simplifyNode(G, n)}
                : n \in {m \in todo : \A k \in todo : hs[m] <= hs[k]}}

\* simplify_coord(G); line 484 is reached only when nothing was raised
simplify_coord(G) ==
    {IF G1.err # "" THEN G1
     ELSE Collect([G1 EXCEPT !.nodes = {n \in @ : ~isCoord(n)}])
     : G1 \in simplifyLoop(G, [n \in AllNodes |-> getHeight(G, n)],
                           {n \in G.nodes : isCoord(n)})}

\* --------------------------------------- a graph with a coordination node

\* the lexical nodes and the coordination node of the input; no bundle
CoordGraphNodes == {Root} \cup LexNodes \cup CoordNodes

\* graphJ['extra_node2words']["$x"]: the coordinators of the node
CoordinatorSets == {{}, {"b"}, {"a", "b"}}

\* graphJ['node_edges']: 'Conj' edges of the coordination node, and edges
\* with no label around it
ConjInputs == {<<"$x", "a", "Conj">>, <<"$x", "c", "Conj">>}
CoordPlainInputs ==
    {<<"$x", "c", None>>, <<"$x", "a", None>>, <<"$x", "b", None>>,
     <<"c", "$x", None>>, <<"a", "$x", None>>, <<Root, "$x", None>>,
     <<"b", "c", None>>, <<"c", "a", None>>, <<"a", "c", None>>}

\* FUDGGraph.__init__ up to line 338 on such an input
InitCoord ==
    /\ nodes = CoordGraphNodes
    /\ children = [n \in AllNodes |-> {}]
    /\ parents = [n \in AllNodes |-> {}]
    /\ childedges = [n \in AllNodes |-> {}]
    /\ parentedges = [n \in AllNodes |-> {}]
    /\ height = [n \in AllNodes |-> 0]
    /\ depth = [n \in AllNodes |-> -1]
    /\ frag = [n \in AllNodes |-> n]
    /\ fragroots = [n \in AllNodes |-> {n}]
    /\ fragnodes = [n \in AllNodes |-> {n}]
    /\ members = [n \in CBBNodes |-> {}]
    /\ externalchildren = [n \in CBBNodes |-> {}]
    /\ top = [n \in CBBNodes |-> None]
    /\ pointerto = [n \in CBBNodes |-> None]
    /\ topcandidates = [n \in CBBNodes |-> Unset]
    /\ parentcandidates = [n \in AllNodes |-> Unset]
    /\ coords \in [CoordNodes -> CoordinatorSets]
    /\ conjuncts = [n \in CoordNodes |-> {}]
    /\ phase = "edges"
    /\ err = ""
    /\ projective = None
    /\ last = <<>>
    /\ builder = declareAll(NewBuilder, <<W(tkn_a), W(tkn_b), W(tkn_c)>>)

\* lines 345-346: a 'Conj' edge
AddConjunct ==
    \E e \in ConjInputs :
        /\ phase = "edges"
        /\ err = ""
        /\ e[2] \notin conjuncts[e[1]]
        /\ Store([Heap EXCEPT !.conjuncts[e[1]] = @ \cup {e[2]}])
        /\ last' = <<>>
        /\ UNCHANGED <<phase, projective>>

\* lines 353-355: an edge with no label
AddCoordChild ==
    \E e \in CoordPlainInputs :
        /\ CanFeed(e)
        /\ \E G \in add_child(Heap, e[1], e[2]) :
                Store(G) /\ last' = (IF G.err # "" THEN e ELSE <<>>)
        /\ UNCHANGED <<phase, projective>>

\* the end of FUDGGraph.__init__ (no bundle to merge; line 372 holds), then
\* simplify_coord(G)
Simplify ==
    /\ phase = "edges"
    /\ err = ""
    /\ \E G \in simplify_coord(Heap) : Store(G)
    /\ phase' = "simplified"
    /\ last' = <<>>
    /\ UNCHANGED projective

NextCoord == AddConjunct \/ AddCoordChild \/ Simplify

CoordSpec == InitCoord /\ [][NextCoord]_vars

\* =================================================================== claims

\* the nodes reached from n by one or more child links
RECURSIVE closure(_, _)
closure(S, k) ==
    IF k = 0 THEN S
    ELSE closure(S \cup UNION {children[m] : m \in S}, k - 1)
Descendants(n) == closure(children[n], Cardinality(AllNodes))

\* the attributes as read through a node name
HeightOf(n) == getHeight(Heap, n)
DepthOf(n) == getDepth(Heap, n)
TopCandidatesOf(n) == getTC(Heap, n)
ParentCandidatesOf(n) == getPC(Heap, n)

MaxOf(S) == CHOOSE x \in S : \A y \in S : y <= x

\* C1: in every graph reached by successful addChild/addMember calls, and
\* after bundle unification, no node (lexical, root, canonical or alias
\* bundle) reaches itself by following one or more child links.
C1_NoNodeReachesItself ==
    err = "" => \A n \in AllNodes : n \notin Descendants(n)

\* C2: after every successful addChild/addMember and after unification, every
\* node of the working set has height 0 if it has no children and otherwise
\* 1 + the greatest height among its children.
C2_HeightIsLongestPathDown ==
    err = "" =>
        \A n \in nodes :
            HeightOf(n) = IF children[n] = {} THEN 0
                          ELSE 1 + MaxOf({HeightOf(c) : c \in children[n]})

\* C3: after each successful addChild of a sequence of edge insertions, every
\* node of a fragment that an insertion has merged has depth 0 if it has no
\* parent and otherwise 1 + the greatest depth among its parents.
C3_DepthIsLongestPathFromRoots ==
    (phase = "edges" /\ err = "") =>
        \A n \in AllNodes :
            Cardinality(fragnodes[frag[n]]) > 1 =>
                DepthOf(n) = IF parents[n] = {} THEN 0
                             ELSE 1 + MaxOf({DepthOf(p) : p \in parents[n]})

\* C3, its case: a node with two parents of different depths, the deeper one
\* having a parent of its own, so that the node lies two links below a root
\* of the fragment its insertions have merged.
C3_Witness ==
    /\ phase = "edges"
    /\ err = ""
    /\ \E n \in AllNodes : \E p, q \in parents[n] :
          /\ DepthOf(p) = 1
          /\ DepthOf(q) = 0
          /\ parents[p] # {}
          /\ DepthOf(n) = 2

\* C4: when the downward pass completes, every non-root node of the working
\* set has a parentCandidates that is non-empty, does not contain the node
\* and contains no descendant of the node.
C4_ParentCandidatesExcludeDescendants ==
    (phase = "down" /\ err = "") =>
        \A n \in nodes \ {Root} :
            /\ ParentCandidatesOf(n) # {}
            /\ n \notin ParentCandidatesOf(n)
            /\ ParentCandidatesOf(n) \cap Descendants(n) = {}

\* the designated tops declared on bundle name B ("cbbhead" edges), as the
\* children's parentedges still record them after unification
DeclaredTops(B) == {c \in AllNodes : <<B, "top">> \in parentedges[c]}

\* C5: after unification and after the passes, two bundle names declared
\* with identical member sets read the same top, topCandidates,
\* parentCandidates, height and depth, and when exactly one of the two
\* declared a designated top, the top read through both is that one.
C5_BundleNamesAgree ==
    (phase \in {"built", "up", "down"} /\ err = "") =>
        \A A, B \in CBBNodes :
            (A # B /\ members[A] = members[B]) =>
                /\ top[A] = top[B]
                /\ TopCandidatesOf(A) = TopCandidatesOf(B)
                /\ ParentCandidatesOf(A) = ParentCandidatesOf(B)
                /\ HeightOf(A) = HeightOf(B)
                /\ DepthOf(A) = DepthOf(B)
                /\ (DeclaredTops(A) # {} /\ DeclaredTops(B) = {}) =>
                      (top[A] \in DeclaredTops(A) /\ top[B] \in DeclaredTops(A))

\* topCandidates(c) for a bundle c, {c} for a real node
TopsOf(c) == IF isCBB(c) THEN TopCandidatesOf(c) ELSE {c}

\* C6: when a bundle is unified into another and either of the two declared
\* member t as its top, the unified bundle's topCandidates after the upward
\* pass is {t} (topCandidates(t) for a bundle t).
C6_UnificationKeepsHead ==
    (phase \in {"up", "down"} /\ err = "") =>
        \A A, B \in CBBNodes :
            pointerto[A] = B =>
                \A t \in DeclaredTops(A) \cup DeclaredTops(B) :
                    TopCandidatesOf(B) = TopsOf(t)

\* C7: the upward pass on a constructed graph completes, every bundle-valued
\* child's set being computed when its parent bundle is visited, and leaves
\* every bundle B of the working set with topCandidates(B) = the tops of its
\* "top" child if it has one, else the union of the tops of its "unspec"
\* children; B and the bundles are never in it.
C7_UpwardComputesTopCandidates ==
    phase = "up" =>
        /\ err = ""
        /\ \A B \in nodes \cap CBBNodes :
              LET tops == {e[1] : e \in {x \in childedges[B] : x[2] = "top"}}
                  unspecs == {e[1] : e \in {x \in childedges[B] : x[2] = "unspec"}}
              IN  /\ TopCandidatesOf(B) # Unset
                  /\ TopCandidatesOf(B) =
                        UNION {TopsOf(c) : c \in (IF tops # {} THEN tops ELSE unspecs)}
                  /\ B \notin TopCandidatesOf(B)
                  /\ TopCandidatesOf(B) \cap CBBNodes = {}

\* the token yield of n, the tokens of multi-node fragments and the places
\* of the yield among them, stated without the recursion of get_yield
MultiNode(n) == Cardinality(fragnodes[frag[n]]) > 1
YieldOf(n) == UNION {tokens(m) : m \in {n} \cup Descendants(n)}
UsedPlaces == {i \in 1..Len(alltokens) :
                 \E m \in LexNodes : alltokens[i] \in tokens(m) /\ MultiNode(m)}
PlaceOf(t) == Cardinality({i \in UsedPlaces : \E j \in 1..Len(alltokens) :
                              alltokens[j] = t /\ i < j})
PlacesOf(n) == {PlaceOf(t) : t \in YieldOf(n)}
Contiguous(P) == \A i, j \in P : \A k \in i..j : k \in P
OnCycle(n) == \E m \in {n} \cup Descendants(n) : m \in Descendants(m)

\* C8 as claimed: whenever the projectivity query returns, it returns false
\* exactly when some node of a multi-node fragment (the Root included) has a
\* yield whose places among the tokens of multi-node fragments are not
\* contiguous.
C8_ProjectiveCountsRoot ==
    projective \in {"True", "False"} =>
        (projective = "False"
            <=> \E n \in nodes : MultiNode(n) /\ ~Contiguous(PlacesOf(n)))

\* r is an outcome of the query on the graph as it stands
C8_Outcome(r) ==
    LET cand == {n \in nodes : ~isRoot(n) /\ MultiNode(n)}
        raises == {n \in cand : YieldOf(n) = {} \/ OnCycle(n)}
        gaps == {n \in cand \ raises : ~Contiguous(PlacesOf(n))}
    IN  /\ r = "True" => (raises = {} /\ gaps = {})
        /\ r = "False" => gaps # {}
        /\ r \in {"ValueError", "RecursionError"} => raises # {}
        /\ raises = {} => r = (IF gaps # {} THEN "False" ELSE "True")

\* C8, amended: the query checks the non-Root nodes of multi-node fragments
\* only; it returns false exactly when one of them has a non-contiguous
\* yield and true otherwise, except that it raises instead when it meets one
\* whose yield is empty or whose child links hold a cycle; and it changes no
\* node, edge, fragment or candidate set.
C8_ProjectiveSkipsRoot ==
    [][(projective = None /\ projective' # None) =>
          /\ C8_Outcome(projective')
          /\ UNCHANGED <<nodes, children, parents, childedges, parentedges,
                         height, depth, frag, fragroots, fragnodes, members,
                         externalchildren, top, pointerto, topcandidates,
                         parentcandidates>>]_vars

\* C8, its case: the query has returned true on a graph in which the Root
\* has children and a yield that is not contiguous.
C8_Witness ==
    /\ projective = "True"
    /\ children[Root] # {}
    /\ MultiNode(Root)
    /\ ~Contiguous(PlacesOf(Root))

\* C9: in every reachable graph the Root has no parent edge other than a
\* "top" edge from a bundle.
C9_RootOnlyAsBundleTop ==
    err = "" => \A e \in parentedges[Root] : isCBB(e[1]) /\ e[2] = "top"

\* C10: when addChild fails with a CycleError, the children, child edges,
\* parents, parent edges, members, external children, heights, depths and
\* fragments are what they were before the call.
C10_FailedAddChildChangesNothing ==
    [][(phase = "edges" /\ err = "" /\ err' = "CycleError") =>
          UNCHANGED <<children, childedges, parents, parentedges, members,
                      externalchildren, height, depth, frag, fragroots,
                      fragnodes>>]_vars

\* C11: addMember(bundle, node, specified top) fails only when the bundle
\* already has a designated top that is a different node; when it succeeds
\* bundle.top = node; and a bundle never has more than one 'top' child edge.
C11_TopRejectedOnlyIfDifferent ==
    [][\A B \in CBBNodes : \A n \in AllNodes :
          /\ (phase = "edges" /\ err = "" /\ err' # "" /\ last' = <<B, n, "top">>)
                => (top[B] # None /\ top[B] # n)
          /\ (phase = "edges" /\ err' = "" /\ <<n, "top">> \in childedges'[B])
                => (top'[B] = n
                    /\ \A m \in AllNodes : <<m, "top">> \in childedges'[B] => m = n)
      ]_vars

\* the nodes connected to the nodes of S by child links, in either direction
RECURSIVE connected(_, _)
connected(S, k) ==
    IF k = 0 THEN S
    ELSE connected(S \cup UNION {children[m] \cup {p \in AllNodes : m \in children[p]}
                                 : m \in S}, k - 1)
Component(n) == connected({n}, Cardinality(AllNodes))

\* C12: after each successful addChild the Fragment records are the
\* connected components of the edges: a node is in its fragment's nodes,
\* every node of a fragment refers to that fragment, the fragment's nodes
\* are the nodes connected to it, and its roots are the parentless ones.
C12_FragmentsAreComponents ==
    (phase = "edges" /\ err = "") =>
        \A n \in AllNodes :
            LET f == frag[n]
            IN  /\ n \in fragnodes[f]
                /\ \A m \in fragnodes[f] : frag[m] = f
                /\ fragnodes[f] = Component(n)
                /\ \A m \in AllNodes : (frag[m] = f) <=> (m \in Component(n))
                /\ fragroots[f] \subseteq fragnodes[f]
                /\ fragroots[f] = {m \in Component(n) : parents[m] = {}}

\* C12, its case: a fragment merged out of two others, with two roots, one
\* of its nodes having entered it under another fragment's name.
C12_Witness ==
    /\ phase = "edges"
    /\ err = ""
    /\ \E n \in AllNodes :
          /\ Cardinality(fragnodes[frag[n]]) >= 3
          /\ Cardinality(fragroots[frag[n]]) >= 2
          /\ n \notin fragroots[frag[n]]
          /\ Cardinality(parents[n]) >= 2

\* C13: in every graph the builder constructs successfully, distinct lexical
\* nodes have distinct names: there are as many names as lexical nodes.
C13_LexicalNamesDistinct ==
    (phase = "built" /\ err = "") =>
        Cardinality({n.name : n \in builder.lexnodes})
            = Cardinality(builder.lexnodes)

\* what one parent edge from p leaves of the candidates of n
AllowedBy(n, p) ==
    IF ~isCBB(p) THEN {p}
    ELSE IF n \notin members[p] THEN TopCandidatesOf(p)
    ELSE LET t == TopsOf(n)
         IN  (IF t \cap TopCandidatesOf(p) # {} THEN ParentCandidatesOf(p) ELSE {})
             \cup (IF t # TopCandidatesOf(p)
                   THEN UNION {TopsOf(sib) : sib \in members[p] \ {n}} ELSE {})

\* the seed: the real nodes of the graph but n and its descendants
SeedOf(n) == {m \in nodes : ~isCBB(m)} \ ({n} \cup Descendants(n))

\* C14: when the downward pass succeeds, parentCandidates(n) of every
\* non-root node is the seed intersected with what each of its parent edges
\* allows; a bundle parent's parentCandidates is computed when it is read;
\* and the pass fails only with the error of an empty result.
C14_DownwardComputesParentCandidates ==
    phase = "down" =>
        /\ err \in {"", "AssertionError: Could not find any possible heads"}
        /\ err = "" =>
              \A n \in nodes \ {Root} :
                  /\ ParentCandidatesOf(n) # Unset
                  /\ ParentCandidatesOf(n) =
                        {x \in SeedOf(n) :
                            \A e \in parentedges[n] : x \in AllowedBy(n, e[1])}
                  /\ \A e \in parentedges[n] :
                        (isCBB(e[1]) /\ n \in members[e[1]])
                            => ParentCandidatesOf(e[1]) # Unset

\* C16: when unification makes bundle A an alias of bundle C (the one merge
\* of the graph), C ends with every external child A had, a height at least
\* the larger of the two heights before the merge, and a depth at least the
\* larger of the two depths before the merge.
C16_CanonicalKeepsMaxima ==
    [][(phase = "edges" /\ phase' = "built" /\ err' = "") =>
          \A A, C \in CBBNodes :
              (pointerto'[A] = C /\ \A X \in CBBNodes \ {A} : pointerto'[X] = None)
                  => /\ externalchildren[A] \subseteq externalchildren'[C]
                     /\ height'[C] >= Max(height[A], height[C])
                     /\ depth'[C] >= Max(depth[A], depth[C])
      ]_vars

\* C17: an ordinary edge from a real node q into a bundle name A that is
\* unified into bundle C still constrains the unified bundle: after the
\* upward and downward passes its parentCandidates, read through A or
\* through C, holds no node but q.
C17_AliasParentEdgesConstrain ==
    (phase = "down" /\ err = "") =>
        \A A \in CBBNodes : \A q \in AllNodes \ CBBNodes :
            (pointerto[A] # None /\ <<A, None>> \in childedges[q])
                => /\ ParentCandidatesOf(A) \subseteq {q}
                   /\ ParentCandidatesOf(pointerto[A]) \subseteq {q}

\* C15: after coordination simplification completes, for every coordination
\* node N that was in the graph: the chosen head is the coordinator of N with
\* the smallest name; every other coordinator, every conjunct and every
\* modifier child of N is a child of that head and no longer has N as a
\* parent; the head is a child of every former parent of N; N is gone from
\* the working node set and from its fragment, every fragment's roots are
\* among its nodes, and no coordination node remains in the working set.
\* (simplify_coord leaves N's own children and parents sets as they were, so
\* they still name the modifiers and the former parents.)
C15_SimplificationRemovesCoordination ==
    (phase = "simplified" /\ err = "") =>
        /\ \A N \in CoordNodes :
              LET head == firstByName(coords[N])
              IN  /\ head \in coords[N]
                  /\ \A c \in ((coords[N] \cup conjuncts[N]) \ {head}) \cup children[N] :
                        c \in children[head] /\ N \notin parents[c]
                  /\ \A p \in parents[N] : head \in children[p]
                  /\ N \notin nodes
                  /\ N \notin fragnodes[frag[N]]
        /\ \A n \in AllNodes : fragroots[frag[n]] \subseteq fragnodes[frag[n]]
        /\ nodes \cap CoordNodes = {}

====
